---- MODULE Spec2Model ----
(***************************************************************************)
(* A model of role-patcher.py: the startup refresh of the shared           *)
(* ClusterRole, the namespace event loop that attaches a RoleBinding to    *)
(* every non-protected namespace, and the cluster API the program talks    *)
(* to.  One step of the model is one API call of the program (with the     *)
(* pure code around it), one call of an external actor, or a kill/restart  *)
(* of the process.                                                         *)
(***************************************************************************)
EXTENDS Integers, Sequences, FiniteSets, TLC

\* ---------------------------------------------------------------- bounds
\* live (non-replayed) events the watch delivers in one behaviour
MaxEvents == 3
\* mutations of the cluster by an actor other than the program
MaxExt == 1
\* restarts of the process by its supervisor
MaxRestarts == 1
\* length of each catalog when the classifier is checked on its own
MaxCatLen == 2
\* changes another actor makes to the cluster during a run that gets no live event
MaxInterfere == 3

\* ------------------------------------------------------ program constants
TARGET_USER == "k8user"
ROLE_RESOURCES == <<"roles", "rolebindings", "clusterroles", "clusterrolebindings">>
READ_VERBS == <<"get", "list", "watch">>
CUSTOM_ROLE_NAME == TARGET_USER \o "-custom-role"
PROTECTED_NAMESPACES == <<"kube-system">>

\* ------------------------------------------------------------- universes
Instances == {1, 2}
Namespaces == {"kube-system", "team-a", "team-b"}
EventTypes == {"ADDED", "MODIFIED", "DELETED"}
NoEvent == [type |-> "NONE", ns |-> ""]

\* resource names the catalogs of the classifier-only specification draw from
ResourceUniverse == {"pods", "deployments", "roles"}

\* the API surfaces the full specifications start from: one with a name
\* listed by two catalogs next to a role-management name, and one with no
\* non-privileged resource at all
CatalogConfigs ==
  { [core |-> <<"pods", "roles">>, apps |-> <<"pods">>, crd |-> <<>>],
    [core |-> <<>>, apps |-> <<>>, crd |-> <<"clusterroles">>] }

\* the status the existence checks map to False (e.status == 404)
NOT_FOUND == 404

VARIABLES
  clusterRoles,   \* the cluster's ClusterRole objects
  roleBindings,   \* the cluster's RoleBinding objects
  namespaces,     \* names of the namespaces that exist
  catalogs,       \* [core, apps, crd]: the resource names each catalog lists
  pc,             \* pc[i]: where instance i of the program stands
  event,          \* event[i]: the event instance i is processing (or processed last)
  resources,      \* resources[i]: the list get_resource_list is building
  nonRole,        \* nonRole[i]: the argument evaluated for create_custom_cluster_role
  replay,         \* replay[i]: namespaces of the initial listing not yet delivered
  nEvents,        \* live events delivered so far
  calls,          \* calls[i]: API calls issued since the last event was received
  pre,            \* pre[i]: the cluster objects when the last event was received
  touched,        \* touched[i]: another actor changed the cluster since then
  failed,         \* failed[i]: an API call of this run of instance i failed
  owes,           \* owes[i]: instance i deleted the shared role and has not created it since
  made,           \* RoleBindings created by the program
  rolesMade,      \* ClusterRoles created by the program
  seenAdded,      \* namespaces an ADDED event was consumed for
  nExt,           \* external mutations so far
  restarts,       \* restarts so far
  killed,         \* killed[i]: where instance i stood when it was last killed
  addedOrder,     \* the namespaces of seenAdded, in the order of their first ADDED event
  madeOrder       \* the namespaces of the bindings of made, in the order of their creation

cluster == <<clusterRoles, roleBindings, namespaces, catalogs>>
local == <<pc, event, resources, nonRole, replay, nEvents>>
ghost == <<calls, pre, touched, failed, owes, made, rolesMade, seenAdded, nExt, restarts, killed,
          addedOrder, madeOrder>>
vars == <<cluster, local, ghost>>

\* ------------------------------------------------------------ pure helpers
Range(s) == {s[k] : k \in 1..Len(s)}

\* list(S) of a Python set: some duplicate-free list of S's members, in an
\* order the language does not fix
ListsOf(S) == {s \in [1..Cardinality(S) -> S] : Range(s) = S}

BoundedSeq(S, n) == UNION {[1..k -> S] : k \in 0..n}

Call(op, status) == [op |-> op, status |-> status]

\* ------------------------------------------------- the program's functions
\* a changed cluster_role_exists: not-found is taken for an answer
MutRoleExistsSwallow(status) ==
  IF status = 200 \/ status = NOT_FOUND THEN "True" ELSE "raise"

\* a changed cluster_role_exists: every ApiException is taken for absence
MutRoleExistsAnyErrorFalse(status) ==
  IF status = 200 THEN "True" ELSE "False"

\* a changed cluster_role_exists: a role that is there is reported absent
MutRoleExistsNever(status) ==
  IF status = 200 \/ status = NOT_FOUND THEN "False" ELSE "raise"

\* cluster_role_exists: True on an answer, False on 404, any other
\* ApiException is raised again
cluster_role_exists(status) ==
  IF status = 200 THEN "True"
  ELSE IF status = NOT_FOUND THEN "False"
  ELSE "raise"

\* a changed role_binding_exists: an answer is taken for absence
MutBindingExistsNever(status) ==
  IF status = 200 \/ status = NOT_FOUND THEN "False" ELSE "raise"

\* a changed role_binding_exists: not-found is taken for an answer
MutBindingExistsSwallow(status) ==
  IF status = 200 \/ status = NOT_FOUND THEN "True" ELSE "raise"

\* role_binding_exists: the same mapping for RoleBindings
role_binding_exists(status) ==
  IF status = 200 THEN "True"
  ELSE IF status = NOT_FOUND THEN "False"
  ELSE "raise"

\* resources.extend(names) in get_resource_list
\* a changed list.extend: the names read before are dropped
MutExtendOverwrite(list, names) == names

Extend(list, names) == list \o names

\* a changed classifier: the role-management names are filtered out of the
\* list without going through a set
MutNonPrivilegedNoSet(list) ==
  {SelectSeq(list, LAMBDA x : x \notin Range(ROLE_RESOURCES))}

\* list(set(resources) - set(ROLE_RESOURCES)): the lists the call may return
NonPrivileged(list) == ListsOf(Range(list) \ Range(ROLE_RESOURCES))

\* a changed role builder: the second rule grants all verbs too
MutClusterRoleBodyAllVerbs(non_role_resources) ==
  [ name |-> CUSTOM_ROLE_NAME,
    rules |-> << [apiGroups |-> <<"*">>, resources |-> non_role_resources,
                  verbs |-> <<"*">>],
                 [apiGroups |-> <<"*">>, resources |-> ROLE_RESOURCES,
                  verbs |-> <<"*">>] >> ]

\* the V1ClusterRole create_custom_cluster_role builds
ClusterRoleBody(non_role_resources) ==
  [ name |-> CUSTOM_ROLE_NAME,
    rules |-> << [apiGroups |-> <<"*">>, resources |-> non_role_resources,
                  verbs |-> <<"*">>],
                 [apiGroups |-> <<"*">>, resources |-> ROLE_RESOURCES,
                  verbs |-> READ_VERBS] >> ]

\* the V1RoleBinding create_custom_role_binding builds
RoleBindingBody(ns, role_binding_name, role_name, rkind) ==
  [ ns |-> ns,
    name |-> role_binding_name,
    roleRef |-> [apiGroup |-> "rbac.authorization.k8s.io", kind |-> rkind,
                 name |-> role_name],
    subjects |-> << [apiGroup |-> "", kind |-> "User", name |-> TARGET_USER] >> ]

\* a changed binding name: the namespace is left out
MutRoleBindingNameFixed(namespace_name) == "custom-rolebinding"

\* role_binding_name = f"{namespace_name}-custom-rolebinding"
RoleBindingName(namespace_name) == namespace_name \o "-custom-rolebinding"

\* a changed event filter: MODIFIED is not skipped
MutIsSkippedTypeDeletedOnly(event_type) == event_type = "DELETED"

\* if event_type == "DELETED" or event_type == "MODIFIED": continue
IsSkippedType(event_type) == event_type = "DELETED" \/ event_type = "MODIFIED"

\* a changed protection test: nothing is protected
MutIsProtectedNone(namespace_name) == FALSE

\* namespace_name in PROTECTED_NAMESPACES
IsProtected(namespace_name) == namespace_name \in Range(PROTECTED_NAMESPACES)

\* a changed call of create_custom_role_binding: rkind is left at its
\* default, "Role"
MutBindingForDefaultKind(n) ==
  RoleBindingBody(n, RoleBindingName(n), CUSTOM_ROLE_NAME, "Role")

\* the binding the loop body makes for a namespace
BindingFor(n) == RoleBindingBody(n, RoleBindingName(n), CUSTOM_ROLE_NAME, "ClusterRole")

\* ------------------------------------------------------- the cluster API
HasClusterRole(roles, name) == \E r \in roles : r.name = name
HasBinding(bindings, ns, name) == \E b \in bindings : b.ns = ns /\ b.name = name

\* the answers each call can get in the current cluster state; 500 stands
\* for any ApiException other than not-found and conflict
ReadClusterRoleStatus(name) ==
  (IF HasClusterRole(clusterRoles, name) THEN {200} ELSE {NOT_FOUND}) \cup {500}
DeleteClusterRoleStatus(name) ==
  (IF HasClusterRole(clusterRoles, name) THEN {200} ELSE {NOT_FOUND}) \cup {500}
CreateClusterRoleStatus(body) ==
  (IF HasClusterRole(clusterRoles, body.name) THEN {409} ELSE {200}) \cup {500}
ReadBindingStatus(ns, name) ==
  (IF HasBinding(roleBindings, ns, name) THEN {200} ELSE {NOT_FOUND}) \cup {500}
CreateBindingStatus(body) ==
  (IF HasBinding(roleBindings, body.ns, body.name) THEN {409} ELSE {200}) \cup {500}
CatalogStatus == {200, 500}

\* a ClusterRole of the shared name left by an earlier run on an older API surface
OldRole == ClusterRoleBody(<<"legacy">>)
\* a ClusterRole of the shared name made by somebody else
ForeignRole == [name |-> CUSTOM_ROLE_NAME, rules |-> <<>>]
\* a RoleBinding of the derived name made by somebody else
ForeignBinding(n) ==
  [ ns |-> n, name |-> RoleBindingName(n),
    roleRef |-> [apiGroup |-> "rbac.authorization.k8s.io", kind |-> "ClusterRole",
                 name |-> "view"],
    subjects |-> << [apiGroup |-> "", kind |-> "User", name |-> "somebody"] >> ]

\* ------------------------------------------------------------ the program
Set(f, i, v) == [f EXCEPT ![i] = v]

\* instance i has not entered the event loop yet
InStartup(i) == event[i] = NoEvent

\* an answer that is an ApiException the caller does not turn into a value
IsFailure(op, status) ==
  /\ status # 200
  /\ ~(status = NOT_FOUND /\ op \in {"read_cluster_role", "read_namespaced_role_binding"})

\* the record kept of an API call of instance i
Log(i, op, status) ==
  /\ calls' = Set(calls, i, Append(calls[i], Call(op, status)))
  /\ failed' = Set(failed, i, failed[i] \/ IsFailure(op, status))

\* a changed error path: a failed self-heal ends the work on the event
MutAfterRoleErrorSkipBinding(i) == IF InStartup(i) THEN "crashed" ELSE "loop"

\* a changed error path: no try around the self-heal
MutAfterRoleErrorNoTry(i) == "crashed"

\* a changed error path: a failure of the startup refresh is swallowed
MutAfterRoleErrorSwallowed(i) == IF InStartup(i) THEN "stream" ELSE "bexists"

\* a changed error path: after a failed step of the startup refresh the
\* create is issued with the list built so far
MutAfterRoleErrorPartial(i) == IF InStartup(i) THEN "create" ELSE "bexists"

\* where an ApiException raised while the shared role is being built takes
\* instance i: out of main() at startup, into the except clause of the loop
\* body otherwise, after which the binding check follows
AfterRoleError(i) == IF InStartup(i) THEN "crashed" ELSE "bexists"

\* where a successful create of the shared role takes instance i
AfterRoleCreate(i) == IF InStartup(i) THEN "stream" ELSE "bexists"

\* a changed binding create: no try around it
MutAfterBindingCreateNoTry(status) == IF status = 200 THEN "loop" ELSE "crashed"

\* lines 317-320: the binding create sits in a try whose except clause logs
\* the ApiException, so the loop goes on to the next event either way
AfterBindingCreate(status) == "loop"

\* main(), line 279: the existence check of the startup refresh
StartupRoleCheck(i) ==
  /\ pc[i] = "start"
  /\ \E st \in ReadClusterRoleStatus(CUSTOM_ROLE_NAME) :
       /\ Log(i, "read_cluster_role", st)
       /\ pc' = Set(pc, i, CASE cluster_role_exists(st) = "True" -> "delete"
                             [] cluster_role_exists(st) = "False" -> "cat1"
                             [] OTHER -> "crashed")
  /\ UNCHANGED <<cluster, event, resources, nonRole, replay, nEvents>>
  /\ UNCHANGED <<pre, touched, owes, made, madeOrder, rolesMade>>
  /\ UNCHANGED <<seenAdded, addedOrder, nExt, restarts, killed>>

\* main(), line 282: del_cluster_role
DeleteRole(i) ==
  /\ pc[i] = "delete"
  /\ \E st \in DeleteClusterRoleStatus(CUSTOM_ROLE_NAME) :
       /\ Log(i, "delete_cluster_role", st)
       /\ IF st = 200
            THEN /\ clusterRoles' = {r \in clusterRoles : r.name # CUSTOM_ROLE_NAME}
                 /\ owes' = Set(owes, i, TRUE)
                 /\ pc' = Set(pc, i, "cat1")
            ELSE /\ UNCHANGED <<clusterRoles, owes>>
                 /\ pc' = Set(pc, i, "crashed")
  /\ UNCHANGED <<roleBindings, namespaces, catalogs>>
  /\ UNCHANGED <<event, resources, nonRole, replay, nEvents>>
  /\ UNCHANGED <<pre, touched, made, madeOrder, rolesMade>>
  /\ UNCHANGED <<seenAdded, addedOrder, nExt, restarts, killed>>

\* get_resource_list, lines 217-218: the core catalog
CoreCatalog(i) ==
  /\ pc[i] = "cat1"
  /\ \E st \in CatalogStatus :
       /\ Log(i, "core.get_api_resources", st)
       /\ IF st = 200
            THEN /\ resources' = Set(resources, i, catalogs.core)
                 /\ pc' = Set(pc, i, "cat2")
            ELSE /\ UNCHANGED resources
                 /\ pc' = Set(pc, i, AfterRoleError(i))
  /\ UNCHANGED <<cluster, event, nonRole, replay, nEvents>>
  /\ UNCHANGED <<pre, touched, owes, made, madeOrder, rolesMade>>
  /\ UNCHANGED <<seenAdded, addedOrder, nExt, restarts, killed>>

\* get_resource_list, lines 222-224: the apps catalog
AppsCatalog(i) ==
  /\ pc[i] = "cat2"
  /\ \E st \in CatalogStatus :
       /\ Log(i, "apps.get_api_resources", st)
       /\ IF st = 200
            THEN /\ resources' = Set(resources, i, Extend(resources[i], catalogs.apps))
                 /\ pc' = Set(pc, i, "cat3")
            ELSE /\ UNCHANGED resources
                 /\ pc' = Set(pc, i, AfterRoleError(i))
  /\ UNCHANGED <<cluster, event, nonRole, replay, nEvents>>
  /\ UNCHANGED <<pre, touched, owes, made, madeOrder, rolesMade>>
  /\ UNCHANGED <<seenAdded, addedOrder, nExt, restarts, killed>>

\* get_resource_list, lines 228-232, and line 249: the custom resource
\* definitions, then the non-privileged list
CrdCatalog(i) ==
  /\ pc[i] = "cat3"
  /\ \E st \in CatalogStatus :
       /\ Log(i, "list_custom_resource_definition", st)
       /\ IF st = 200
            THEN /\ resources' = Set(resources, i, Extend(resources[i], catalogs.crd))
                 /\ \E l \in NonPrivileged(resources'[i]) : nonRole' = Set(nonRole, i, l)
                 /\ pc' = Set(pc, i, "create")
            ELSE /\ UNCHANGED <<resources, nonRole>>
                 /\ pc' = Set(pc, i, AfterRoleError(i))
  /\ UNCHANGED <<cluster, event, replay, nEvents>>
  /\ UNCHANGED <<pre, touched, owes, made, madeOrder, rolesMade>>
  /\ UNCHANGED <<seenAdded, addedOrder, nExt, restarts, killed>>

\* create_custom_cluster_role, lines 152-171, called at lines 285 and 310
CreateRole(i) ==
  /\ pc[i] = "create"
  /\ LET body == ClusterRoleBody(nonRole[i]) IN
     \E st \in CreateClusterRoleStatus(body) :
       /\ Log(i, "create_cluster_role", st)
       /\ IF st = 200
            THEN /\ clusterRoles' = clusterRoles \cup {body}
                 /\ rolesMade' = rolesMade \cup {body}
                 /\ owes' = Set(owes, i, FALSE)
                 /\ pc' = Set(pc, i, AfterRoleCreate(i))
            ELSE /\ UNCHANGED <<clusterRoles, rolesMade, owes>>
                 /\ pc' = Set(pc, i, AfterRoleError(i))
  /\ UNCHANGED <<roleBindings, namespaces, catalogs>>
  /\ UNCHANGED <<event, resources, nonRole, replay, nEvents>>
  /\ UNCHANGED <<pre, touched, made, madeOrder, seenAdded>>
  /\ UNCHANGED <<addedOrder, nExt, restarts, killed>>

\* w.stream(core_v1.list_namespace, ...), line 290: the watch opens and
\* lists the namespaces that exist, which it will deliver as ADDED events
OpenStream(i) ==
  /\ pc[i] = "stream"
  /\ replay' = Set(replay, i, namespaces)
  /\ pc' = Set(pc, i, "loop")
  /\ UNCHANGED <<cluster, event, resources, nonRole, nEvents, ghost>>

\* lines 299-306: where the loop body goes with an event
Dispatch(event_type, namespace_name) ==
  IF IsSkippedType(event_type) THEN "loop"
  ELSE IF ~IsProtected(namespace_name) THEN "rcheck"
  ELSE "loop"

\* what the namespace set is once the watch has reported the event
NamespacesAfter(e) ==
  CASE e.type = "ADDED" -> namespaces \cup {e.ns}
    [] e.type = "DELETED" -> namespaces \ {e.ns}
    [] OTHER -> namespaces

\* lines 290-306 for the event e: the event is taken from the stream and
\* either skipped or handed to the loop body
Take(i, e) ==
  /\ event' = Set(event, i, e)
  /\ pc' = Set(pc, i, Dispatch(e.type, e.ns))
  /\ calls' = Set(calls, i, <<>>)
  /\ pre' = Set(pre, i, [roles |-> clusterRoles, bindings |-> roleBindings])
  /\ touched' = Set(touched, i, FALSE)
  /\ seenAdded' = IF e.type = "ADDED" THEN seenAdded \cup {e.ns} ELSE seenAdded
  /\ addedOrder' = IF e.type = "ADDED" /\ e.ns \notin seenAdded
                     THEN Append(addedOrder, e.ns) ELSE addedOrder
  /\ UNCHANGED <<clusterRoles, roleBindings, catalogs, resources, nonRole>>
  /\ UNCHANGED <<failed, owes, made, madeOrder, rolesMade, nExt, restarts, killed>>

\* the next event is one of the initial listing
ReceiveListed(i) ==
  /\ pc[i] = "loop"
  /\ \E n \in replay[i] :
       /\ replay' = Set(replay, i, replay[i] \ {n})
       /\ Take(i, [type |-> "ADDED", ns |-> n])
  /\ UNCHANGED <<namespaces, nEvents>>

\* the next event is a live one: any type, any namespace
ReceiveLive(i) ==
  /\ pc[i] = "loop"
  /\ replay[i] = {}
  /\ nEvents < MaxEvents
  /\ \E t \in EventTypes, n \in Namespaces :
       /\ namespaces' = NamespacesAfter([type |-> t, ns |-> n])
       /\ Take(i, [type |-> t, ns |-> n])
  /\ nEvents' = nEvents + 1
  /\ UNCHANGED replay

\* main(), line 307: the existence check of the shared role in the loop body
LoopRoleCheck(i) ==
  /\ pc[i] = "rcheck"
  /\ \E st \in ReadClusterRoleStatus(CUSTOM_ROLE_NAME) :
       /\ Log(i, "read_cluster_role", st)
       /\ pc' = Set(pc, i, CASE cluster_role_exists(st) = "True" -> "bexists"
                             [] cluster_role_exists(st) = "False" -> "cat1"
                             [] OTHER -> "crashed")
  /\ UNCHANGED <<cluster, event, resources, nonRole, replay, nEvents>>
  /\ UNCHANGED <<pre, touched, owes, made, madeOrder, rolesMade>>
  /\ UNCHANGED <<seenAdded, addedOrder, nExt, restarts, killed>>

\* main(), line 314: the existence check of the namespace's binding
BindingCheck(i) ==
  /\ pc[i] = "bexists"
  /\ \E st \in ReadBindingStatus(event[i].ns, RoleBindingName(event[i].ns)) :
       /\ Log(i, "read_namespaced_role_binding", st)
       /\ pc' = Set(pc, i, CASE role_binding_exists(st) = "True" -> "loop"
                             [] role_binding_exists(st) = "False" -> "bcreate"
                             [] OTHER -> "crashed")
  /\ UNCHANGED <<cluster, event, resources, nonRole, replay, nEvents>>
  /\ UNCHANGED <<pre, touched, owes, made, madeOrder, rolesMade>>
  /\ UNCHANGED <<seenAdded, addedOrder, nExt, restarts, killed>>

\* main(), lines 317-320: create_custom_role_binding inside its try
BindingCreate(i) ==
  /\ pc[i] = "bcreate"
  /\ LET body == BindingFor(event[i].ns) IN
     \E st \in CreateBindingStatus(body) :
       /\ Log(i, "create_namespaced_role_binding", st)
       /\ IF st = 200
            THEN /\ roleBindings' = roleBindings \cup {body}
                 /\ made' = made \cup {body}
                 /\ madeOrder' = Append(madeOrder, body.ns)
            ELSE UNCHANGED <<roleBindings, made, madeOrder>>
       /\ pc' = Set(pc, i, AfterBindingCreate(st))
  /\ UNCHANGED <<clusterRoles, namespaces, catalogs>>
  /\ UNCHANGED <<event, resources, nonRole, replay, nEvents>>
  /\ UNCHANGED <<pre, touched, owes, rolesMade, seenAdded>>
  /\ UNCHANGED <<addedOrder, nExt, restarts, killed>>

\* one step of instance i of the program, other than taking a live event
ProgramOnListing(i) ==
  \/ StartupRoleCheck(i)
  \/ DeleteRole(i)
  \/ CoreCatalog(i)
  \/ AppsCatalog(i)
  \/ CrdCatalog(i)
  \/ CreateRole(i)
  \/ OpenStream(i)
  \/ ReceiveListed(i)
  \/ LoopRoleCheck(i)
  \/ BindingCheck(i)
  \/ BindingCreate(i)

\* one step of instance i of the program
Program(i) == ProgramOnListing(i) \/ ReceiveLive(i)

\* ------------------------------------------------------- the other actors
\* somebody else changes the shared role or a binding of the derived name
TouchAll == touched' = [i \in Instances |-> TRUE]

ExtDeleteRoleUpTo(max) ==
  /\ nExt < max
  /\ HasClusterRole(clusterRoles, CUSTOM_ROLE_NAME)
  /\ clusterRoles' = {r \in clusterRoles : r.name # CUSTOM_ROLE_NAME}
  /\ nExt' = nExt + 1
  /\ TouchAll
  /\ UNCHANGED <<roleBindings, namespaces, catalogs, local>>
  /\ UNCHANGED <<calls, pre, failed, owes, made, madeOrder>>
  /\ UNCHANGED <<rolesMade, seenAdded, addedOrder, restarts, killed>>

ExtCreateRoleUpTo(max) ==
  /\ nExt < max
  /\ ~HasClusterRole(clusterRoles, CUSTOM_ROLE_NAME)
  /\ clusterRoles' = clusterRoles \cup {ForeignRole}
  /\ nExt' = nExt + 1
  /\ TouchAll
  /\ UNCHANGED <<roleBindings, namespaces, catalogs, local>>
  /\ UNCHANGED <<calls, pre, failed, owes, made, madeOrder>>
  /\ UNCHANGED <<rolesMade, seenAdded, addedOrder, restarts, killed>>

ExtDeleteBindingUpTo(max) ==
  /\ nExt < max
  /\ \E b \in roleBindings : roleBindings' = roleBindings \ {b}
  /\ nExt' = nExt + 1
  /\ TouchAll
  /\ UNCHANGED <<clusterRoles, namespaces, catalogs, local>>
  /\ UNCHANGED <<calls, pre, failed, owes, made, madeOrder>>
  /\ UNCHANGED <<rolesMade, seenAdded, addedOrder, restarts, killed>>

ExtCreateBindingUpTo(max) ==
  /\ nExt < max
  /\ \E n \in namespaces :
       /\ ~HasBinding(roleBindings, n, RoleBindingName(n))
       /\ roleBindings' = roleBindings \cup {ForeignBinding(n)}
  /\ nExt' = nExt + 1
  /\ TouchAll
  /\ UNCHANGED <<clusterRoles, namespaces, catalogs, local>>
  /\ UNCHANGED <<calls, pre, failed, owes, made, madeOrder>>
  /\ UNCHANGED <<rolesMade, seenAdded, addedOrder, restarts, killed>>

ExtDeleteRole == ExtDeleteRoleUpTo(MaxExt)
ExtCreateRole == ExtCreateRoleUpTo(MaxExt)
ExtDeleteBinding == ExtDeleteBindingUpTo(MaxExt)
ExtCreateBinding == ExtCreateBindingUpTo(MaxExt)

External == ExtDeleteRole \/ ExtCreateRole \/ ExtDeleteBinding \/ ExtCreateBinding

\* the same actor with room for several changes during one event
Interference ==
  \/ ExtDeleteRoleUpTo(MaxInterfere)
  \/ ExtCreateRoleUpTo(MaxInterfere)
  \/ ExtDeleteBindingUpTo(MaxInterfere)
  \/ ExtCreateBindingUpTo(MaxInterfere)

\* the process is killed, at any point of main()
Terminate(i) ==
  /\ pc[i] \notin {"off", "dead", "crashed"}
  /\ pc' = Set(pc, i, "dead")
  /\ killed' = Set(killed, i, [at |-> pc[i], owing |-> owes[i]])
  /\ UNCHANGED <<cluster, event, resources, nonRole, replay, nEvents>>
  /\ UNCHANGED <<calls, pre, touched, failed, owes, made>>
  /\ UNCHANGED <<madeOrder, rolesMade, seenAdded, addedOrder, nExt, restarts>>

\* the supervisor starts the process again: main() from its first line
Restart(i) ==
  /\ pc[i] \in {"dead", "crashed"}
  /\ restarts < MaxRestarts
  /\ restarts' = restarts + 1
  /\ pc' = Set(pc, i, "start")
  /\ event' = Set(event, i, NoEvent)
  /\ resources' = Set(resources, i, <<>>)
  /\ nonRole' = Set(nonRole, i, <<>>)
  /\ replay' = Set(replay, i, {})
  /\ calls' = Set(calls, i, <<>>)
  /\ failed' = Set(failed, i, FALSE)
  /\ touched' = Set(touched, i, FALSE)
  /\ pre' = Set(pre, i, [roles |-> clusterRoles, bindings |-> roleBindings])
  /\ UNCHANGED <<cluster, nEvents, owes, made, madeOrder>>
  /\ UNCHANGED <<rolesMade, seenAdded, addedOrder, nExt, killed>>

\* --------------------------------------------------------- specifications
InitLocal(running) ==
  /\ pc = [i \in Instances |-> IF i \in running THEN "start" ELSE "off"]
  /\ event = [i \in Instances |-> NoEvent]
  /\ resources = [i \in Instances |-> <<>>]
  /\ nonRole = [i \in Instances |-> <<>>]
  /\ replay = [i \in Instances |-> {}]
  /\ nEvents = 0
  /\ calls = [i \in Instances |-> <<>>]
  /\ pre = [i \in Instances |-> [roles |-> clusterRoles, bindings |-> roleBindings]]
  /\ touched = [i \in Instances |-> FALSE]
  /\ failed = [i \in Instances |-> FALSE]
  /\ owes = [i \in Instances |-> FALSE]
  /\ made = {}
  /\ rolesMade = {}
  /\ seenAdded = {}
  /\ addedOrder = <<>>
  /\ madeOrder = <<>>
  /\ nExt = 0
  /\ restarts = 0
  /\ killed = [i \in Instances |-> [at |-> "none", owing |-> FALSE]]

\* the program is started once on a cluster that holds no binding yet and
\* may hold the shared role of an earlier run
Init ==
  /\ clusterRoles \in {{}, {OldRole}}
  /\ roleBindings = {}
  /\ namespaces \in {{"kube-system"}, {"kube-system", "team-a"}}
  /\ catalogs \in CatalogConfigs
  /\ InitLocal({1})

\* one instance, API calls that may fail, and another actor on the cluster
Next == Program(1) \/ External

Spec == Init /\ [][Next]_vars

\* one instance that may be killed and restarted, and API calls that may fail
NextCrash == Program(1) \/ Terminate(1) \/ Restart(1)

SpecCrash == Init /\ [][NextCrash]_vars

\* one instance on a cluster with two namespaces to bind, API calls that
\* may fail and another actor on the cluster; the watch delivers the listing
\* of the namespaces that exist and no live event
InitInterfere ==
  /\ clusterRoles \in {{}, {OldRole}}
  /\ roleBindings = {}
  /\ namespaces = {"kube-system", "team-a", "team-b"}
  /\ catalogs \in CatalogConfigs
  /\ InitLocal({1})

NextInterfere == ProgramOnListing(1) \/ Interference

SpecInterfere == InitInterfere /\ [][NextInterfere]_vars

\* two instances of the program started on the same cluster, each with its
\* own watch, and API calls that may fail; the watches deliver the listing
\* of the namespaces that exist and no live event
InitTwo ==
  /\ clusterRoles \in {{}, {OldRole}}
  /\ roleBindings = {}
  /\ namespaces = {"kube-system", "team-a"}
  /\ catalogs \in CatalogConfigs
  /\ InitLocal({1, 2})

NextTwo == ProgramOnListing(1) \/ ProgramOnListing(2)

SpecTwo == InitTwo /\ [][NextTwo]_vars

\* the startup refresh alone, over every API surface of three catalogs of at
\* most MaxCatLen names each
InitClassify ==
  /\ clusterRoles \in {{}, {OldRole}}
  /\ roleBindings = {}
  /\ namespaces = {"kube-system"}
  /\ catalogs \in [core : BoundedSeq(ResourceUniverse, MaxCatLen),
                   apps : BoundedSeq(ResourceUniverse, MaxCatLen),
                   crd : BoundedSeq(ResourceUniverse, MaxCatLen)]
  /\ InitLocal({1})

NextClassify ==
  \/ StartupRoleCheck(1)
  \/ DeleteRole(1)
  \/ CoreCatalog(1)
  \/ AppsCatalog(1)
  \/ CrdCatalog(1)
  \/ CreateRole(1)

SpecClassify == InitClassify /\ [][NextClassify]_vars

\* ----------------------------------------------------------------- claims
\* the names the documentation fixes, written out
ProtectedNamespaceSet == {"kube-system"}
RoleManagementResourceSet == {"roles", "rolebindings", "clusterroles", "clusterrolebindings"}
SharedRoleName == "k8user-custom-role"
DerivedBindingName(n) == n \o "-custom-rolebinding"

Last(s) == s[Len(s)]
NoDuplicates(s) == \A j, k \in 1..Len(s) : j # k => s[j] # s[k]
CatalogNames == Range(catalogs.core) \cup Range(catalogs.apps) \cup Range(catalogs.crd)
Ops(i) == {calls[i][k].op : k \in 1..Len(calls[i])}
AllSucceeded(i) ==
  \A k \in 1..Len(calls[i]) : ~IsFailure(calls[i][k].op, calls[i][k].status)
BindingsNamed(bindings, n) ==
  {b \in bindings : b.ns = n /\ b.name = DerivedBindingName(n)}
\* the cluster objects are what they were when the event was received
SameAsReceived(i) ==
  clusterRoles = pre[i].roles /\ roleBindings = pre[i].bindings
\* the shared role has the two rules of the documentation for the current catalogs
TwoRules(r) ==
  /\ Len(r.rules) = 2
  /\ Range(r.rules[1].verbs) = {"*"}
  /\ Range(r.rules[1].resources) = CatalogNames \ RoleManagementResourceSet
  /\ Range(r.rules[2].verbs) = {"get", "list", "watch"}
  /\ Range(r.rules[2].resources) = RoleManagementResourceSet

C2_SkippedTypesInert ==
  \A i \in Instances :
    event[i].type \in {"MODIFIED", "DELETED"} =>
      /\ pc[i] = "loop"
      /\ calls[i] = <<>>
      /\ ~touched[i] => SameAsReceived(i)

\* a MODIFIED event has been consumed for an existing namespace that has
\* no binding yet
C2_Witness ==
  /\ event[1] = [type |-> "MODIFIED", ns |-> "team-a"]
  /\ "team-a" \in namespaces
  /\ BindingsNamed(roleBindings, "team-a") = {}
  /\ nExt = 0

\* C3: when an ADDED event arrives for a non-protected namespace whose
\* binding already exists, no create call for a binding is issued, no call
\* answers with a conflict, and the namespace holds exactly one binding of
\* the derived name.
C3_BindingIdempotent ==
  \A i \in Instances :
    ( /\ event[i].type = "ADDED"
      /\ event[i].ns \notin ProtectedNamespaceSet
      /\ BindingsNamed(pre[i].bindings, event[i].ns) # {}
      /\ ~touched[i] ) =>
        /\ "create_namespaced_role_binding" \notin Ops(i)
        /\ \A k \in 1..Len(calls[i]) : calls[i][k].status # 409
        /\ Cardinality(BindingsNamed(roleBindings, event[i].ns)) = 1

\* after a restart the namespace is replayed as ADDED, its binding of the
\* earlier run is found and the event is done
C3_Witness ==
  /\ restarts = 1
  /\ event[1] = [type |-> "ADDED", ns |-> "team-a"]
  /\ pre[1].bindings = {BindingFor("team-a")}
  /\ pc[1] = "loop"
  /\ calls[1] # <<>>
  /\ Last(calls[1]) = Call("read_namespaced_role_binding", 200)

\* C4: when an ADDED event for a non-protected namespace is received while
\* the shared role is absent, and every call made for it succeeds with
\* nobody else changing the cluster meanwhile, a successful create of the
\* role precedes any create call for the binding, and once the event is
\* done the shared role and the namespace's binding both exist.
C4_SelfHealing ==
  \A i \in Instances :
    ( /\ event[i].type = "ADDED"
      /\ event[i].ns \notin ProtectedNamespaceSet
      /\ ~HasClusterRole(pre[i].roles, SharedRoleName)
      /\ ~touched[i]
      /\ AllSucceeded(i) ) =>
        /\ \A k \in 1..Len(calls[i]) :
             calls[i][k].op = "create_namespaced_role_binding" =>
               \E j \in 1..(k - 1) : calls[i][j] = Call("create_cluster_role", 200)
        /\ pc[i] = "loop" =>
             /\ HasClusterRole(clusterRoles, SharedRoleName)
             /\ BindingsNamed(roleBindings, event[i].ns) # {}

\* the role was deleted by somebody else, then an ADDED event for team-a
\* was processed: role created, then binding created
C4_Witness ==
  /\ nExt = 1
  /\ event[1] = [type |-> "ADDED", ns |-> "team-a"]
  /\ pre[1].roles = {}
  /\ ~touched[1]
  /\ pc[1] = "loop"
  /\ Len(calls[1]) = 7
  /\ AllSucceeded(1)
  /\ Last(calls[1]) = Call("create_namespaced_role_binding", 200)

C6_NonPrivilegedResult ==
  \A i \in Instances :
    pc[i] = "create" =>
      /\ Range(nonRole[i]) = CatalogNames \ RoleManagementResourceSet
      /\ NoDuplicates(nonRole[i])

\* two catalogs list pods, the third lists roles: the result is pods, once
C6_Witness ==
  /\ pc[1] = "create"
  /\ catalogs = [core |-> <<"pods">>, apps |-> <<"pods">>, crd |-> <<"roles">>]
  /\ nonRole[1] = <<"pods">>

\* C7: every shared role the program created has exactly two rules: all
\* verbs on the non-privileged names of the catalogs, and get, list, watch
\* on the four role-management resources.
C7_RoleHasTwoRules ==
  \A r \in rolesMade :
    /\ r.name = SharedRoleName
    /\ TwoRules(r)
    /\ Range(r.rules[1].resources) \cap RoleManagementResourceSet = {}

\* a self-heal has just created the shared role on a cluster that has no
\* non-privileged resource
C7_Witness ==
  /\ pc[1] = "bexists"
  /\ calls[1] # <<>>
  /\ Last(calls[1]) = Call("create_cluster_role", 200)
  /\ \E r \in clusterRoles : r \in rolesMade /\ r.rules[1].resources = <<>>

\* C8 as stated: the program never ends having deleted the shared role
\* without creating it again, also when a step after the delete fails.
C8_NeverLeftDeleted ==
  \A i \in Instances : pc[i] = "crashed" => ~owes[i]

\* C8 as amended: the shared role is missing by the program's own delete
\* only during the startup refresh, between the delete and the create; the
\* process ends in that window only when a catalog query or the create
\* failed, and no event is consumed before the role is created again.
C8_DeletedOnlyInRefresh ==
  \A i \in Instances :
    owes[i] =>
      /\ InStartup(i)
      /\ pc[i] \in {"cat1", "cat2", "cat3", "create", "crashed"}
      /\ pc[i] = "crashed" =>
           /\ Last(calls[i]).status # 200
           /\ Last(calls[i]).op \in {"core.get_api_resources", "apps.get_api_resources",
                                     "list_custom_resource_definition",
                                     "create_cluster_role"}

\* the startup refresh deleted the old role and created the new one
C8_Witness ==
  /\ pc[1] = "stream"
  /\ ~owes[1]
  /\ Len(calls[1]) = 6
  /\ calls[1][2] = Call("delete_cluster_role", 200)
  /\ calls[1][6] = Call("create_cluster_role", 200)

\* C9: in a run in which no call has failed, once the startup refresh is
\* done and the listed namespaces have been processed, the shared role
\* exists with its two rules and every existing non-protected namespace has
\* exactly one binding of the derived name, wherever earlier runs were killed.
C9_Reconverges ==
  \A i \in Instances :
    (pc[i] = "loop" /\ replay[i] = {} /\ ~failed[i]) =>
      /\ \E r \in clusterRoles : r.name = SharedRoleName /\ TwoRules(r)
      /\ Cardinality({r \in clusterRoles : r.name = SharedRoleName}) = 1
      /\ \A n \in namespaces \ ProtectedNamespaceSet :
           Cardinality(BindingsNamed(roleBindings, n)) = 1

\* the process was killed between the delete and the create of the
\* refresh, was restarted, and has processed the listed namespaces
C9_Witness ==
  /\ restarts = 1
  /\ killed[1] = [at |-> "create", owing |-> TRUE]
  /\ pc[1] = "loop" /\ replay[1] = {} /\ ~failed[1]
  /\ "team-a" \in namespaces
  /\ nEvents = 0

\* C10: a create call of the loop body that fails, for the role or for the
\* binding, changes neither the roles nor the bindings and does not end the
\* loop: after the role the binding check follows, after the binding the
\* next event is awaited.
C10_CreateErrorsCaught ==
  [][ \A i \in Instances :
        ( /\ ~InStartup(i)
          /\ Len(calls'[i]) = Len(calls[i]) + 1
          /\ Last(calls'[i]).op \in {"create_cluster_role", "create_namespaced_role_binding"}
          /\ Last(calls'[i]).status # 200 ) =>
            /\ clusterRoles' = clusterRoles
            /\ roleBindings' = roleBindings
            /\ pc'[i] = IF Last(calls'[i]).op = "create_cluster_role"
                          THEN "bexists" ELSE "loop" ]_vars

\* the binding create for team-a failed in an earlier event (team-a has no
\* binding and nobody else touched the cluster), and a later event for
\* team-b was processed to the end
C10_Witness ==
  /\ failed[1] /\ nExt = 0
  /\ "team-a" \in seenAdded
  /\ BindingsNamed(roleBindings, "team-a") = {}
  /\ event[1] = [type |-> "ADDED", ns |-> "team-b"]
  /\ pc[1] = "loop"
  /\ calls[1] = << Call("read_cluster_role", 200),
                   Call("read_namespaced_role_binding", NOT_FOUND),
                   Call("create_namespaced_role_binding", 200) >>

\* the existence checks and the catalog queries, by the names of their calls
ExistenceChecks == {"read_cluster_role", "read_namespaced_role_binding"}
CatalogQueries == {"core.get_api_resources", "apps.get_api_resources",
                   "list_custom_resource_definition"}
Creates == {"create_cluster_role", "create_namespaced_role_binding"}

\* C11: an existence check that fails with anything but not-found is the
\* last call of the process: the exception leaves main(), so no call, and
\* in particular no create, follows it; and a create in the loop body is
\* issued only after the check of its object answered not-found.
C11_FailedCheckNeverAbsence ==
  \A i \in Instances :
    \A k \in 1..Len(calls[i]) :
      /\ ( calls[i][k].op \in ExistenceChecks
           /\ calls[i][k].status \notin {200, 404} ) =>
             /\ k = Len(calls[i])
             /\ pc[i] = "crashed"
      /\ ( ~InStartup(i) /\ calls[i][k].op = "create_namespaced_role_binding" ) =>
             /\ k > 1
             /\ calls[i][k - 1] = Call("read_namespaced_role_binding", 404)
      /\ ( ~InStartup(i) /\ calls[i][k].op = "create_cluster_role" ) =>
             calls[i][1] = Call("read_cluster_role", 404)

\* the binding check of an event failed with a server error after the role
\* check had succeeded: the process has ended, nothing was created
C11_Witness ==
  /\ pc[1] = "crashed"
  /\ event[1] = [type |-> "ADDED", ns |-> "team-a"]
  /\ calls[1] = << Call("read_cluster_role", 200),
                   Call("read_namespaced_role_binding", 500) >>
  /\ BindingsNamed(roleBindings, "team-a") = {}

\* C12: a catalog query that fails during the startup refresh is the last
\* call of the process: no create of the shared role follows, no role and
\* no binding has been created by this run and no event is consumed.
C12_CatalogFailureFatalAtStartup ==
  \A i \in Instances :
    \A k \in 1..Len(calls[i]) :
      ( /\ InStartup(i)
        /\ calls[i][k].op \in CatalogQueries
        /\ calls[i][k].status # 200 ) =>
          /\ k = Len(calls[i])
          /\ pc[i] = "crashed"
          /\ replay[i] = {}
          /\ rolesMade = {}
          /\ made = {}

\* the old role was deleted, the core catalog answered, the apps catalog
\* failed: the process has ended and the cluster has no shared role
C12_Witness ==
  /\ pc[1] = "crashed"
  /\ InStartup(1)
  /\ Len(calls[1]) = 4
  /\ calls[1][2] = Call("delete_cluster_role", 200)
  /\ calls[1][3] = Call("core.get_api_resources", 200)
  /\ calls[1][4] = Call("apps.get_api_resources", 500)
  /\ clusterRoles = {}

\* the place of each call in the loop body
Rank(op) ==
  CASE op = "read_cluster_role" -> 1
    [] op = "core.get_api_resources" -> 2
    [] op = "apps.get_api_resources" -> 3
    [] op = "list_custom_resource_definition" -> 4
    [] op = "create_cluster_role" -> 5
    [] op = "read_namespaced_role_binding" -> 6
    [] op = "create_namespaced_role_binding" -> 7
    [] OTHER -> 0
IsPrefix(s, t) == Len(s) <= Len(t) /\ \A k \in 1..Len(s) : s[k] = t[k]
\* the place of a namespace in the order of first ADDED events
Pos(n) == CHOOSE k \in 1..Len(addedOrder) : addedOrder[k] = n
\* the non-protected namespaces in the order of their first ADDED event
NonProtectedOrder == SelectSeq(addedOrder, LAMBDA n : n \notin ProtectedNamespaceSet)

\* C13 as stated: the bindings the program created were created in the
\* order of the first ADDED events of their namespaces.
C13_CreatedInFirstAddedOrder ==
  \A j, k \in 1..Len(madeOrder) :
    (j < k /\ madeOrder[j] # madeOrder[k]) => Pos(madeOrder[j]) < Pos(madeOrder[k])

\* C13 as amended: the calls made for an event are the role check, the
\* calls of the self-heal, the binding check and the binding create, each
\* at most once and in that order, all made while that event is the
\* current one; and as long as no call has failed and nobody else has
\* changed the cluster, the bindings are created in the order of the first
\* ADDED events of their namespaces, with at most the current event's
\* binding still to be created.
C13_OneEventAtATime ==
  /\ \A i \in Instances :
       ~InStartup(i) =>
         /\ \A k \in 1..Len(calls[i]) : Rank(calls[i][k].op) > 0
         /\ \A j, k \in 1..Len(calls[i]) :
              j < k => Rank(calls[i][j].op) < Rank(calls[i][k].op)
         /\ calls[i] # <<>> => event[i].type = "ADDED"
  /\ (~failed[1] /\ nExt = 0) =>
       /\ IsPrefix(madeOrder, NonProtectedOrder)
       /\ Len(NonProtectedOrder) - Len(madeOrder) <= 1
       /\ pc[1] = "loop" => madeOrder = NonProtectedOrder

\* team-b, then team-a were ADDED and got their bindings in that order
C13_Witness ==
  /\ ~failed[1] /\ nExt = 0
  /\ pc[1] = "loop"
  /\ NonProtectedOrder = <<"team-b", "team-a">>
  /\ madeOrder = <<"team-b", "team-a">>
  /\ "kube-system" \in seenAdded

\* instance i has finished its startup refresh
PastStartup(i) == ~InStartup(i) \/ pc[i] \in {"stream", "loop"}
Other(i) == CHOOSE j \in Instances : j # i

\* C14: with two instances on one cluster the hazards of the startup
\* refresh are those of the race between them and nothing else: the shared
\* role is missing under an instance that has finished its startup only
\* while the other instance has deleted it and not created it again; a
\* startup delete meets not-found only after the other instance deleted
\* the role, and a startup create meets a conflict only after an instance
\* created the role.  The witness shows such an interleaving.
C14_TwoInstancesRace ==
  \A i \in Instances :
    /\ (PastStartup(i) /\ ~HasClusterRole(clusterRoles, SharedRoleName)) =>
         owes[Other(i)]
    /\ (pc[i] = "crashed" /\ InStartup(i)
          /\ Last(calls[i]) = Call("delete_cluster_role", 404)) =>
         (owes[Other(i)] \/ rolesMade # {})
    /\ (pc[i] = "crashed" /\ InStartup(i)
          /\ Last(calls[i]) = Call("create_cluster_role", 409)) =>
         rolesMade # {}

\* instance 2 deleted the shared role under instance 1, which was already
\* in its event loop and had to create the role again; the create of
\* instance 2 then met a conflict and its startup failed
C14_Witness ==
  /\ pc[2] = "crashed"
  /\ InStartup(2)
  /\ Len(calls[2]) = 6
  /\ calls[2][2] = Call("delete_cluster_role", 200)
  /\ calls[2][6] = Call("create_cluster_role", 409)
  /\ ~InStartup(1)
  /\ ~failed[1]
  /\ Call("create_cluster_role", 200) \in Range(calls[1])

\* C15: every binding the program created carries the name derived from
\* its namespace, refers to the shared ClusterRole by name and has the
\* fixed principal as its only subject.
C15_BindingShape ==
  \A b \in made :
    /\ b.ns \in Namespaces
    /\ b.name = DerivedBindingName(b.ns)
    /\ b.roleRef = [apiGroup |-> "rbac.authorization.k8s.io", kind |-> "ClusterRole",
                    name |-> SharedRoleName]
    /\ Len(b.subjects) = 1
    /\ b.subjects[1] = [apiGroup |-> "", kind |-> "User", name |-> "k8user"]

\* the program has created the bindings of team-a and team-b, while
\* kube-system holds a binding of the derived name that somebody else made
C15_Witness ==
  /\ {b.ns : b \in made} = {"team-a", "team-b"}
  /\ made \subseteq roleBindings
  /\ ForeignBinding("kube-system") \in roleBindings

\* the operations of the calls of instance i, in the order they were made
OpSeq(i) == [k \in 1..Len(calls[i]) |-> calls[i][k].op]
StartupOrderFound ==
  <<"read_cluster_role", "delete_cluster_role", "core.get_api_resources",
    "apps.get_api_resources", "list_custom_resource_definition", "create_cluster_role">>
StartupOrderNotFound ==
  <<"read_cluster_role", "core.get_api_resources",
    "apps.get_api_resources", "list_custom_resource_definition", "create_cluster_role">>
WithoutSharedRole(roles) == {r \in roles : r.name # SharedRoleName}

\* the calls of a startup refresh so far are in the documented order, and
\* a refresh that ended undisturbed left the role it built
C16_StartupState ==
  \A i \in Instances :
    (InStartup(i) /\ pc[i] # "off") =>
      /\ IF Len(calls[i]) > 0 /\ calls[i][1] = Call("read_cluster_role", 200)
           THEN IsPrefix(OpSeq(i), StartupOrderFound)
           ELSE IsPrefix(OpSeq(i), StartupOrderNotFound)
      /\ "create_cluster_role" \in Ops(i) =>
           \/ calls[i][1] = Call("read_cluster_role", NOT_FOUND)
           \/ calls[i][2] = Call("delete_cluster_role", 200)
      /\ (pc[i] \in {"stream", "loop"} /\ nExt = 0) =>
           /\ AllSucceeded(i)
           /\ Last(calls[i]) = Call("create_cluster_role", 200)
           /\ clusterRoles = {ClusterRoleBody(nonRole[i])}
           /\ Range(nonRole[i]) = CatalogNames \ RoleManagementResourceSet
           /\ \A r \in clusterRoles : TwoRules(r) /\ r \in rolesMade

\* a call of the startup refresh changes the roles only by removing the
\* shared role or by adding it where there was none
C16_StartupStep ==
  \A i \in Instances :
    (InStartup(i) /\ calls'[i] # calls[i] /\ clusterRoles' # clusterRoles) =>
      \/ /\ Last(calls'[i]) = Call("delete_cluster_role", 200)
         /\ clusterRoles' = WithoutSharedRole(clusterRoles)
      \/ /\ Last(calls'[i]) = Call("create_cluster_role", 200)
         /\ ~HasClusterRole(clusterRoles, SharedRoleName)
         /\ WithoutSharedRole(clusterRoles') = clusterRoles
         /\ Cardinality(clusterRoles' \ clusterRoles) = 1

\* C16: the startup refresh calls, in this order, the existence check, the
\* delete (only after the check found the role), the three catalog queries
\* and the create; the create is issued only after the check answered
\* not-found or the delete succeeded; the role is only ever removed or
\* created, never changed while it exists; and a refresh that is not
\* disturbed and whose calls all succeed ends with exactly the role built
\* from the catalogs it read.
C16_StartupRefresh == []C16_StartupState /\ [][C16_StartupStep]_vars

\* an undisturbed refresh has replaced an old role and the watch is about to open
C16_Witness ==
  /\ pc[1] = "stream" /\ nExt = 0
  /\ OpSeq(1) = StartupOrderFound /\ AllSucceeded(1)
  /\ OldRole \notin clusterRoles
  /\ clusterRoles = {ClusterRoleBody(nonRole[1])}

RoleRefreshOps == CatalogQueries \cup {"create_cluster_role"}

\* what the calls made for the current event say about the shared role
C17_LoopState ==
  \A i \in Instances :
    ~InStartup(i) =>
      /\ "delete_cluster_role" \notin Ops(i)
      /\ (pc[i] \in {"cat1", "cat2", "cat3", "create"} \/ Ops(i) \cap RoleRefreshOps # {}) =>
           /\ calls[i][1] = Call("read_cluster_role", NOT_FOUND)
           /\ event[i].type = "ADDED"
           /\ event[i].ns \notin ProtectedNamespaceSet
      /\ (Len(calls[i]) > 0 /\ calls[i][1] = Call("read_cluster_role", 200)) =>
           /\ Ops(i) \cap RoleRefreshOps = {}
           /\ ~touched[i] => clusterRoles = pre[i].roles
      /\ ~touched[i] => pre[i].roles \subseteq clusterRoles

\* a call of the program that removes a role is a call of the startup refresh
C17_LoopStep ==
  \A i \in Instances :
    (calls'[i] # calls[i] /\ ~(clusterRoles \subseteq clusterRoles')) =>
      /\ InStartup(i) /\ InStartup(i)'
      /\ Last(calls'[i]) = Call("delete_cluster_role", 200)

\* C17: in the event loop the program never calls the delete of the shared
\* role; it runs the catalog queries and the role create only for an ADDED
\* event of a non-protected namespace whose existence check answered
\* not-found; after a check that answered found it makes none of these
\* calls and leaves the roles as they were; the only step of the program
\* that removes a role is the delete of the startup refresh.
C17_LoopNeverDeletes == []C17_LoopState /\ [][C17_LoopStep]_vars

\* the role was missing when team-a was added and the loop body has made it
C17_Witness ==
  /\ ~InStartup(1) /\ pc[1] = "bexists"
  /\ event[1] = [type |-> "ADDED", ns |-> "team-a"]
  /\ OpSeq(1) = <<"read_cluster_role", "core.get_api_resources",
                  "apps.get_api_resources", "list_custom_resource_definition",
                  "create_cluster_role">>
  /\ AllSucceeded(1)
  /\ HasClusterRole(clusterRoles, SharedRoleName)
  /\ ~HasClusterRole(pre[1].roles, SharedRoleName)

\* C18: in the loop body a failed catalog query or a failed role create is
\* recorded and followed by the existence check of the binding of the same
\* event; a binding check that answers not-found is followed by the binding
\* create and one that answers found by none, whether or not the shared
\* role exists; after the binding create, failed or not, the loop is back
\* at the stream.
C18_FailedSelfHealGoesOn ==
  \A i \in Instances :
    ~InStartup(i) =>
      \A k \in 1..Len(calls[i]) :
        LET c == calls[i][k]
            last == k = Len(calls[i])
        IN /\ (c.op \in RoleRefreshOps /\ c.status # 200) =>
                /\ failed[i]
                /\ IF last THEN pc[i] = "bexists"
                   ELSE calls[i][k + 1].op = "read_namespaced_role_binding"
           /\ c = Call("read_namespaced_role_binding", NOT_FOUND) =>
                IF last THEN pc[i] = "bcreate"
                ELSE calls[i][k + 1].op = "create_namespaced_role_binding"
           /\ c = Call("read_namespaced_role_binding", 200) => (last /\ pc[i] = "loop")
           /\ c.op = "create_namespaced_role_binding" =>
                /\ last /\ pc[i] = "loop"
                /\ calls[i][k - 1] = Call("read_namespaced_role_binding", NOT_FOUND)

\* a catalog query of the self-heal failed, the role is still missing, and
\* the binding of the event's namespace has been created all the same
C18_Witness ==
  /\ pc[1] = "loop" /\ ~InStartup(1)
  /\ calls[1] = << Call("read_cluster_role", NOT_FOUND),
                   Call("core.get_api_resources", 500),
                   Call("read_namespaced_role_binding", NOT_FOUND),
                   Call("create_namespaced_role_binding", 200) >>
  /\ ~HasClusterRole(clusterRoles, SharedRoleName)
  /\ BindingFor(event[1].ns) \in roleBindings

\* the bindings as the program has left them so far
C19_BindingsState ==
  /\ NoDuplicates(madeOrder)
  /\ made \subseteq roleBindings
  /\ \A n \in Namespaces : Cardinality(BindingsNamed(roleBindings, n)) <= 1
  /\ \A i \in Instances :
       (~InStartup(i) /\ event[i].type = "DELETED") =>
         /\ calls[i] = <<>>
         /\ roleBindings = pre[i].bindings

\* what one step of the program does to the bindings
C19_BindingsStep ==
  /\ roleBindings \subseteq roleBindings'
  /\ \A b \in roleBindings' \ roleBindings :
       /\ BindingsNamed(roleBindings, b.ns) = {}
       /\ b.name = DerivedBindingName(b.ns)
  /\ \A i \in Instances :
       ( /\ calls'[i] # calls[i] /\ calls'[i] # <<>>
         /\ Last(calls'[i]).op = "create_namespaced_role_binding" ) =>
           BindingsNamed(roleBindings, event[i].ns) = {}

\* C19: with the program, its terminations and its restarts as the only
\* actors, no step removes or changes a binding; a binding is added only
\* where the namespace had none of the derived name, the create call is
\* issued only then, and no namespace has its binding created twice; while
\* a DELETED event is the current one no call is made and the bindings are
\* those that were there when it arrived.
C19_BindingsOnlyGrow == []C19_BindingsState /\ [][C19_BindingsStep]_vars

\* team-a was deleted after the program had made its binding: the binding
\* is still there
C19_Witness ==
  /\ event[1] = [type |-> "DELETED", ns |-> "team-a"]
  /\ "team-a" \notin namespaces
  /\ BindingFor("team-a") \in roleBindings
  /\ madeOrder = <<"team-a">>

SharedRoles(roles) == {r \in roles : r.name = SharedRoleName}

\* C20: with one instance and another actor changing the shared role and
\* the bindings between the calls of the loop body, the loop stops only on
\* an existence check that failed with an error other than not-found, which
\* no change of the cluster produces; a create that meets a conflict has met
\* an object the other actor put there after the check, the conflict is
\* recorded and the loop body goes on (to the binding check after the role
\* create, to the stream after the binding create); a role check that
\* answers not-found starts the self-heal; and there is never more than one
\* role of the shared name or more than one binding of the derived name in
\* a namespace.
C20_InterferenceTolerated ==
  /\ Cardinality(SharedRoles(clusterRoles)) <= 1
  /\ \A n \in Namespaces : Cardinality(BindingsNamed(roleBindings, n)) <= 1
  /\ \A i \in Instances :
       ~InStartup(i) =>
         /\ pc[i] = "crashed" =>
              /\ Last(calls[i]).op \in ExistenceChecks
              /\ Last(calls[i]).status = 500
         /\ \A k \in 1..Len(calls[i]) :
              LET c == calls[i][k]
                  last == k = Len(calls[i])
              IN /\ c.op # "delete_cluster_role"
                 /\ c = Call("create_cluster_role", 409) =>
                      /\ touched[i] /\ failed[i]
                      /\ calls[i][1] = Call("read_cluster_role", NOT_FOUND)
                      /\ IF last THEN pc[i] = "bexists"
                         ELSE calls[i][k + 1].op = "read_namespaced_role_binding"
                 /\ c = Call("create_namespaced_role_binding", 409) =>
                      /\ touched[i] /\ failed[i]
                      /\ calls[i][k - 1] = Call("read_namespaced_role_binding", NOT_FOUND)
                      /\ last /\ pc[i] = "loop"
                 /\ c = Call("read_cluster_role", NOT_FOUND) =>
                      IF last THEN pc[i] = "cat1"
                      ELSE calls[i][k + 1].op = "core.get_api_resources"

\* within one event the other actor removed the role before the check, put
\* one back before the create, and made the binding between its check and
\* its create: both creates met a conflict and the loop is back at the stream
C20_Witness ==
  /\ pc[1] = "loop" /\ ~InStartup(1)
  /\ calls[1] = << Call("read_cluster_role", NOT_FOUND),
                   Call("core.get_api_resources", 200),
                   Call("apps.get_api_resources", 200),
                   Call("list_custom_resource_definition", 200),
                   Call("create_cluster_role", 409),
                   Call("read_namespaced_role_binding", NOT_FOUND),
                   Call("create_namespaced_role_binding", 409) >>
  /\ clusterRoles = {ForeignRole}
  /\ ForeignBinding(event[1].ns) \in roleBindings

====
